---- MODULE Spec2Model ----
(***************************************************************************)
(* Model of the table generators of cowel:                                 *)
(*   src/util/generate-case-transform-cpp.py  (case-mapping tables)        *)
(*   src/util/generate-html-entities-cpp.py   (named-entity table)         *)
(* Text is modelled as TLA+ strings; every Python string operation the     *)
(* scripts use (split, strip, startswith, slicing, int(x, 16), the         *)
(* format specs 04X and 08X, list.sort) is an operator that computes what  *)
(* the Python operation computes.                                          *)
(***************************************************************************)
EXTENDS Integers, Sequences, FiniteSets, TLC

VARIABLES
    \* generate-case-transform-cpp.py
    argv,              \* sys.argv
    file,              \* the lines of the input file, each with its "\n"
    pc,                \* position of the run in main()
    transformation,    \* main's local of that name
    expected_columns,  \* main's local of that name
    opened,            \* whether open(path) has been executed
    lineNo,            \* number of lines the for loop has consumed
    stdout,            \* the lines printed to sys.stdout, in order
    stderr,            \* the lines printed to sys.stderr, in order
    exitCode,          \* the process exit status; -1 while running
    \* generate-html-entities-cpp.py, run twice on two orderings of one document
    data,              \* data[r]: the items of the JSON document in the order of run r
    run,               \* the run in progress (1 or 2); 3 when both have ended
    position,          \* number of items the for loop of this run has consumed
    output,            \* the list named output of the run in progress
    written,           \* written[r]: the lines run r printed to sys.stdout
    \* the code-point renderers of both scripts applied to one code point
    sample,            \* the code point
    literals           \* what each call site rendered for it ("" before the call)

caseVars == <<argv, file, pc, transformation, expected_columns, opened, lineNo,
              stdout, stderr, exitCode>>
entityVars == <<data, run, position, output, written>>
escapeVars == <<sample, literals>>
vars == <<caseVars, entityVars, escapeVars>>

(***************************************************************************)
(* Bounds of the model.                                                    *)
(***************************************************************************)
\* longest input file, in lines
MaxLines == 3
\* most items in the entity document
MaxEntries == 2
\* code points sampled on each side of every boundary value
MaxDelta == 3

(***************************************************************************)
(* Python's string operations.                                             *)
(***************************************************************************)
CharAt(s, i) == SubSeq(s, i, i)

\* str.startswith(prefix)
StartsWith(s, prefix) ==
    /\ Len(s) >= Len(prefix)
    /\ SubSeq(s, 1, Len(prefix)) = prefix

Whitespace == {" ", "\t", "\n", "\r", "\f"}

RECURSIVE LStrip(_)
LStrip(s) ==
    IF s # "" /\ CharAt(s, 1) \in Whitespace
    THEN LStrip(SubSeq(s, 2, Len(s)))
    ELSE s

RECURSIVE RStrip(_)
RStrip(s) ==
    IF s # "" /\ CharAt(s, Len(s)) \in Whitespace
    THEN RStrip(SubSeq(s, 1, Len(s) - 1))
    ELSE s

\* str.strip()
Strip(s) == LStrip(RStrip(s))

\* str.rstrip("\n")
RECURSIVE RStripNewline(_)
RStripNewline(s) ==
    IF s # "" /\ CharAt(s, Len(s)) = "\n"
    THEN RStripNewline(SubSeq(s, 1, Len(s) - 1))
    ELSE s

\* str.split(sep) for a one-character separator: the pieces between the
\* separators, empty pieces kept; "" splits to <<"">>.
RECURSIVE SplitFrom(_, _, _, _)
SplitFrom(s, sep, i, start) ==
    IF i > Len(s)
    THEN <<SubSeq(s, start, Len(s))>>
    ELSE IF CharAt(s, i) = sep
         THEN <<SubSeq(s, start, i - 1)>> \o SplitFrom(s, sep, i + 1, i + 1)
         ELSE SplitFrom(s, sep, i + 1, start)

Split(s, sep) == SplitFrom(s, sep, 1, 1)

\* sep.join(parts)
RECURSIVE Join(_, _)
Join(parts, sep) ==
    IF parts = <<>> THEN ""
    ELSE IF Len(parts) = 1 THEN parts[1]
    ELSE parts[1] \o sep \o Join(Tail(parts), sep)

\* "".join(parts)
RECURSIVE Concat(_)
Concat(parts) ==
    IF parts = <<>> THEN "" ELSE parts[1] \o Concat(Tail(parts))

\* s[start:stop] for a start >= 0 and a stop that may be negative (counted from
\* the end), clamped to the string as Python clamps slice bounds.
Slice(s, start, stop) ==
    LET n == Len(s)
        lo == IF start > n THEN n ELSE start
        raw == IF stop < 0 THEN n + stop ELSE stop
        hi == IF raw < 0 THEN 0 ELSE IF raw > n THEN n ELSE raw
    IN  IF lo >= hi THEN "" ELSE SubSeq(s, lo + 1, hi)

UpperHexDigits == "0123456789ABCDEF"
LowerHexDigits == "0123456789abcdef"
DecimalDigits == "0123456789"

\* format spec X: the uppercase hexadecimal digits of n >= 0, no padding
RECURSIVE FormatHex(_)
FormatHex(n) ==
    IF n < 16
    THEN CharAt(UpperHexDigits, n + 1)
    ELSE FormatHex(n \div 16) \o CharAt(UpperHexDigits, (n % 16) + 1)

\* the 0<width> part of a format spec: zeros on the left up to the width;
\* a longer string is left alone
RECURSIVE ZeroPad(_, _)
ZeroPad(s, width) ==
    IF Len(s) >= width THEN s ELSE ZeroPad("0" \o s, width)

\* str(n) / f"{n}" for n >= 0
RECURSIVE FormatDecimal(_)
FormatDecimal(n) ==
    IF n < 10
    THEN CharAt(DecimalDigits, n + 1)
    ELSE FormatDecimal(n \div 10) \o CharAt(DecimalDigits, (n % 10) + 1)

IsHexDigit(c) ==
    \E d \in 1..16 : CharAt(UpperHexDigits, d) = c \/ CharAt(LowerHexDigits, d) = c

HexDigitValue(c) ==
    (CHOOSE d \in 1..16 :
        CharAt(UpperHexDigits, d) = c \/ CharAt(LowerHexDigits, d) = c) - 1

\* int(s, 16) raises ValueError: after stripping whitespace the text is empty
\* or holds a character that is no hexadecimal digit.  (Signs, a 0x prefix and
\* digit-group underscores, which int also accepts, occur in no modelled input.)
IntRaises(s) ==
    LET t == Strip(s)
    IN  t = "" \/ \E i \in 1..Len(t) : ~IsHexDigit(CharAt(t, i))

RECURSIVE HexDigitsValue(_)
HexDigitsValue(t) ==
    IF t = "" THEN 0
    ELSE 16 * HexDigitsValue(SubSeq(t, 1, Len(t) - 1))
         + HexDigitValue(CharAt(t, Len(t)))

\* int(s, 16) when it does not raise
Int16(s) == HexDigitsValue(Strip(s))

(***************************************************************************)
(* generate-case-transform-cpp.py: the renderers.                          *)
(***************************************************************************)
transformations == <<"simple_lower", "simple_upper", "special_lower", "special_upper">>

\* to_char_escape with >= in the place of >
to_char_escape_from_FFFF(code_point) ==
    IF code_point >= 65535
    THEN "\\U" \o ZeroPad(FormatHex(code_point), 8)
    ELSE "\\u" \o ZeroPad(FormatHex(code_point), 4)

\* lines 17-18
to_char_escape(code_point) ==
    IF code_point > 65535
    THEN "\\U" \o ZeroPad(FormatHex(code_point), 8)
    ELSE "\\u" \o ZeroPad(FormatHex(code_point), 4)

to_char_literal(code_point) == "U'" \o to_char_escape(code_point) \o "'"

format_code_points(code_points) ==
    Join([i \in 1..Len(code_points) |-> to_char_literal(code_points[i])], ",")

\* the line print_simple prints
print_simple(code_point, transformed) ==
    "{" \o format_code_points(<<code_point, transformed>>) \o "},"

\* the line print_special prints
print_special(code_point, transformed) ==
    LET key == to_char_literal(code_point)
        value == "U\""
                 \o Concat([i \in 1..Len(transformed) |-> to_char_escape(transformed[i])])
                 \o "\""
    IN  "{" \o key \o "," \o value \o "},"

(***************************************************************************)
(* generate-case-transform-cpp.py: the inputs of the model.                *)
(***************************************************************************)
\* Lines of UnicodeData.txt (15 fields) and of SpecialCasing.txt (5 fields, or
\* 6 for a conditional mapping), a blank line, a comment, and a 4-field line.
InputLines ==
    { "\n",
      "# c\n",
      "0041;A;Lu;x\n",
      "0041;A;Lu;0;L;;;;;N;;;;0061;\n",
      "10400;D;Lu;0;L;;;;;N;;;;10428;\n",
      "0061;a;Ll;0;L;;;;;N;;;0041;;0041\n",
      "00DF;s;Ll;0;L;;;;;N;;;;;\n",
      "01C5;D;Lt;0;L;;;;;N;;;01C4;01C6;01C5\n",
      "00DF; 00DF; 0053 0073; 0053 0053; # c\n",
      "0130; 0069 0307; 0130; 0130; # c\n",
      "0149; 0149; 02BC 004E; ; # c\n",
      "03A3; 03C2; 03A3; 03A3; Final_Sigma; # c\n" }

Files == UNION {[1..n -> InputLines] : n \in 0..MaxLines}

\* sys.argv: the program name, then 0 to 3 arguments
ArgvSamples ==
    { <<"gen">>, <<"gen", "Data.txt">>, <<"gen", "Data.txt", "simple_upper", "x">> }
    \cup { <<"gen", "Data.txt", t>> :
             t \in { "simple_lower", "simple_upper", "special_lower", "special_upper",
                     "simple-upper", "special" } }

EntityIdle ==
    /\ data = <<>>
    /\ run = 0
    /\ position = 0
    /\ output = <<>>
    /\ written = <<>>

EscapeIdle ==
    /\ sample = 0
    /\ literals = <<>>

CaseIdle ==
    /\ argv = <<>>
    /\ file = <<>>
    /\ pc = "idle"
    /\ transformation = ""
    /\ expected_columns = 0
    /\ opened = FALSE
    /\ lineNo = 0
    /\ stdout = <<>>
    /\ stderr = <<>>
    /\ exitCode = -1

Init ==
    /\ argv \in ArgvSamples
    /\ file \in Files
    /\ pc = "main"
    /\ transformation = ""
    /\ expected_columns = 0
    /\ opened = FALSE
    /\ lineNo = 0
    /\ stdout = <<>>
    /\ stderr = <<>>
    /\ exitCode = -1
    /\ EntityIdle
    /\ EscapeIdle

(***************************************************************************)
(* generate-case-transform-cpp.py: main().                                 *)
(***************************************************************************)
InTransformations(t) == \E i \in 1..Len(transformations) : transformations[i] = t

\* lines 35-37: len(sys.argv) != 3
UsageError ==
    /\ pc = "main"
    /\ Len(argv) # 3
    /\ stderr' = Append(stderr,
           "Usage: " \o argv[1] \o " <Data.txt> (" \o Join(transformations, "|") \o ")")
    /\ exitCode' = 1
    /\ pc' = "exited"
    /\ UNCHANGED <<argv, file, transformation, expected_columns, opened, lineNo, stdout>>
    /\ UNCHANGED <<entityVars, escapeVars>>

\* line 39: transformation = sys.argv[2]
ReadTransformation ==
    /\ pc = "main"
    /\ Len(argv) = 3
    /\ transformation' = argv[3]
    /\ pc' = "check"
    /\ UNCHANGED <<argv, file, expected_columns, opened, lineNo, stdout, stderr, exitCode>>
    /\ UNCHANGED <<entityVars, escapeVars>>

\* lines 40-42: transformation not in transformations
InvalidTransformation ==
    /\ pc = "check"
    /\ ~InTransformations(transformation)
    /\ stderr' = Append(stderr, "Invalid transformation \"" \o transformation \o "\"")
    /\ exitCode' = 1
    /\ pc' = "exited"
    /\ UNCHANGED <<argv, file, transformation, expected_columns, opened, lineNo, stdout>>
    /\ UNCHANGED <<entityVars, escapeVars>>

\* OpenInput with the check of line 40 left out: the file is opened whatever the
\* transformation is
OpenInputUnchecked ==
    /\ pc = "check"
    /\ expected_columns' = IF StartsWith(transformation, "simple") THEN 15 ELSE 5
    /\ opened' = TRUE
    /\ pc' = "loop"
    /\ UNCHANGED <<argv, file, transformation, lineNo, stdout, stderr, exitCode>>
    /\ UNCHANGED <<entityVars, escapeVars>>

\* lines 43-47: expected_columns, path, open(path)
OpenInput ==
    /\ pc = "check"
    /\ InTransformations(transformation)
    /\ expected_columns' = IF StartsWith(transformation, "simple") THEN 15 ELSE 5
    /\ opened' = TRUE
    /\ pc' = "loop"
    /\ UNCHANGED <<argv, file, transformation, lineNo, stdout, stderr, exitCode>>
    /\ UNCHANGED <<entityVars, escapeVars>>

\* the line the for loop reads next, after line 49's rstrip
Line == RStripNewline(file[lineNo + 1])

\* line 53
Fields == Split(Line, ";")

AtLine == pc = "loop" /\ lineNo < Len(file)

\* line 50 is false: the line is neither blank nor a comment
IsRecord == Line # "" /\ ~StartsWith(Line, "#")

\* the loop body reaches line 63
AtRecord ==
    /\ AtLine
    /\ IsRecord
    /\ Len(Fields) >= expected_columns
    /\ ~(StartsWith(transformation, "special") /\ Len(Fields) >= 6)

\* Continue with the printed lines put before the earlier ones
ContinuePrepending(printed) ==
    /\ lineNo' = lineNo + 1
    /\ stdout' = printed \o stdout
    /\ UNCHANGED <<argv, file, pc, transformation, expected_columns, opened,
                   stderr, exitCode>>
    /\ UNCHANGED <<entityVars, escapeVars>>

\* the loop body ends and the loop goes on, having printed these lines
Continue(printed) ==
    /\ lineNo' = lineNo + 1
    /\ stdout' = stdout \o printed
    /\ UNCHANGED <<argv, file, pc, transformation, expected_columns, opened,
                   stderr, exitCode>>
    /\ UNCHANGED <<entityVars, escapeVars>>

\* int(text, 16) raises ValueError, which nothing catches
RaiseValueError(text) ==
    /\ lineNo' = lineNo + 1
    /\ stderr' = Append(stderr,
           "ValueError: invalid literal for int() with base 16: '" \o text \o "'")
    /\ exitCode' = 1
    /\ pc' = "exited"
    /\ UNCHANGED <<argv, file, transformation, expected_columns, opened, stdout>>
    /\ UNCHANGED <<entityVars, escapeVars>>

\* lines 50-51: continue
SkipLine ==
    /\ AtLine
    /\ ~IsRecord
    /\ Continue(<<>>)

\* lines 55-57: too few columns
TooFewColumns ==
    /\ AtLine
    /\ IsRecord
    /\ Len(Fields) < expected_columns
    /\ lineNo' = lineNo + 1
    /\ stderr' = Append(stderr,
           "Expected at least " \o FormatDecimal(expected_columns)
           \o " columns, but got " \o FormatDecimal(Len(Fields)))
    /\ exitCode' = 1
    /\ pc' = "exited"
    /\ UNCHANGED <<argv, file, transformation, expected_columns, opened, stdout>>
    /\ UNCHANGED <<entityVars, escapeVars>>

\* ConditionalBreak with continue in the place of break
ConditionalBreakAsContinue ==
    /\ AtLine
    /\ IsRecord
    /\ Len(Fields) >= expected_columns
    /\ StartsWith(transformation, "special") /\ Len(Fields) >= 6
    /\ Continue(<<>>)

\* lines 58-61: break; the with block and main end, the process exits with 0
ConditionalBreak ==
    /\ AtLine
    /\ IsRecord
    /\ Len(Fields) >= expected_columns
    /\ StartsWith(transformation, "special") /\ Len(Fields) >= 6
    /\ lineNo' = lineNo + 1
    /\ exitCode' = 0
    /\ pc' = "done"
    /\ UNCHANGED <<argv, file, transformation, expected_columns, opened, stdout, stderr>>
    /\ UNCHANGED <<entityVars, escapeVars>>

\* SimpleUpper without the test of the general category
SimpleUpperAnyCategory ==
    /\ AtRecord
    /\ transformation = "simple_upper"
    /\ IF IntRaises(Fields[1]) THEN RaiseValueError(Fields[1])
       ELSE IF Fields[13] # ""
            THEN IF IntRaises(Fields[13]) THEN RaiseValueError(Fields[13])
                 ELSE Continue(<<print_simple(Int16(Fields[1]), Int16(Fields[13]))>>)
            ELSE Continue(<<>>)

\* lines 63, 66-71
SimpleUpper ==
    /\ AtRecord
    /\ transformation = "simple_upper"
    /\ IF IntRaises(Fields[1]) THEN RaiseValueError(Fields[1])
       ELSE LET code_point == Int16(Fields[1])
                general_category == Fields[3]
            IN  IF general_category = "Ll" /\ Fields[13] # ""
                THEN IF IntRaises(Fields[13]) THEN RaiseValueError(Fields[13])
                     ELSE Continue(<<print_simple(code_point, Int16(Fields[13]))>>)
                ELSE Continue(<<>>)

\* lines 63, 72-75
SimpleLower ==
    /\ AtRecord
    /\ transformation = "simple_lower"
    /\ IF IntRaises(Fields[1]) THEN RaiseValueError(Fields[1])
       ELSE LET code_point == Int16(Fields[1])
                general_category == Fields[3]
            IN  IF general_category = "Lu" /\ Fields[14] # ""
                THEN IF IntRaises(Fields[14]) THEN RaiseValueError(Fields[14])
                     ELSE Continue(<<print_simple(code_point, Int16(Fields[14]))>>)
                ELSE Continue(<<>>)

\* fields[k].strip().split(" ")
Tokens(field) == Split(Strip(field), " ")

\* SpecialArm with the length test >= 1 in the place of >= 2
SpecialArmAnyLength(code_point, field) ==
    LET tokens == Tokens(field)
    IN  IF \E i \in 1..Len(tokens) : IntRaises(tokens[i])
        THEN RaiseValueError((CHOOSE t \in {tokens[i] : i \in 1..Len(tokens)} : IntRaises(t)))
        ELSE LET transformed == [i \in 1..Len(tokens) |-> Int16(tokens[i])]
             IN  IF Len(transformed) >= 1
                 THEN Continue(<<print_special(code_point, transformed)>>)
                 ELSE Continue(<<>>)

\* lines 77-79 and 81-83, for the column the mode designates
SpecialArm(code_point, field) ==
    LET tokens == Tokens(field)
    IN  IF \E i \in 1..Len(tokens) : IntRaises(tokens[i])
        THEN RaiseValueError((CHOOSE t \in {tokens[i] : i \in 1..Len(tokens)} : IntRaises(t)))
        ELSE LET transformed == [i \in 1..Len(tokens) |-> Int16(tokens[i])]
             IN  IF Len(transformed) >= 2
                 THEN Continue(<<print_special(code_point, transformed)>>)
                 ELSE Continue(<<>>)

\* lines 63, 76-79
SpecialUpper ==
    /\ AtRecord
    /\ transformation = "special_upper"
    /\ IF IntRaises(Fields[1]) THEN RaiseValueError(Fields[1])
       ELSE SpecialArm(Int16(Fields[1]), Fields[4])

\* lines 63, 80-83
SpecialLower ==
    /\ AtRecord
    /\ transformation = "special_lower"
    /\ IF IntRaises(Fields[1]) THEN RaiseValueError(Fields[1])
       ELSE SpecialArm(Int16(Fields[1]), Fields[2])

\* the for loop is exhausted; the with block and main end, the process exits with 0
EndOfFile ==
    /\ pc = "loop"
    /\ lineNo = Len(file)
    /\ exitCode' = 0
    /\ pc' = "done"
    /\ UNCHANGED <<argv, file, transformation, expected_columns, opened, lineNo,
                   stdout, stderr>>
    /\ UNCHANGED <<entityVars, escapeVars>>

\* (The match statement's case _ at lines 84-85 cannot be reached: line 40 has
\* already rejected every transformation the four arms do not name.)

Next ==
    \/ UsageError
    \/ ReadTransformation
    \/ InvalidTransformation
    \/ OpenInput
    \/ SkipLine
    \/ TooFewColumns
    \/ ConditionalBreak
    \/ SimpleUpper
    \/ SimpleLower
    \/ SpecialUpper
    \/ SpecialLower
    \/ EndOfFile

Spec == Init /\ [][Next]_vars

(***************************************************************************)
(* Properties of generate-case-transform-cpp.py.                           *)
(***************************************************************************)
RecognizedModes == {"simple_lower", "simple_upper", "special_lower", "special_upper"}
SimpleModes == {"simple_lower", "simple_upper"}
SpecialModes == {"special_lower", "special_upper"}

Halted == pc \in {"done", "exited"}

\* the i-th line of the input file without its line break, and its fields
LineAt(i) == RStripNewline(file[i])
FieldsAt(i) == Split(LineAt(i), ";")
RecordAt(i) == LineAt(i) # "" /\ ~StartsWith(LineAt(i), "#")

\* The code points an emitted text of escapes denotes: each \u takes 4 digits,
\* each \U takes 8; <<-1>> marks text that is no sequence of escapes.
RECURSIVE DecodeEscapes(_)
DecodeEscapes(s) ==
    IF s = "" THEN <<>>
    ELSE IF StartsWith(s, "\\u") /\ Len(s) >= 6 /\ ~IntRaises(SubSeq(s, 3, 6))
         THEN <<HexDigitsValue(SubSeq(s, 3, 6))>> \o DecodeEscapes(SubSeq(s, 7, Len(s)))
    ELSE IF StartsWith(s, "\\U") /\ Len(s) >= 10 /\ ~IntRaises(SubSeq(s, 3, 10))
         THEN <<HexDigitsValue(SubSeq(s, 3, 10))>> \o DecodeEscapes(SubSeq(s, 11, Len(s)))
    ELSE <<-1>>

EscapeWidth(c) == IF c > 65535 THEN 10 ELSE 6

\* l is {U'<escape of from>',U'<escape of to>'},
IsSimpleLine(l, from, to) ==
    LET a == EscapeWidth(from)
        b == EscapeWidth(to)
    IN  /\ Len(l) = a + b + 10
        /\ SubSeq(l, 1, 3) = "{U'"
        /\ DecodeEscapes(SubSeq(l, 4, a + 3)) = <<from>>
        /\ SubSeq(l, a + 4, a + 7) = "',U'"
        /\ DecodeEscapes(SubSeq(l, a + 8, a + b + 7)) = <<to>>
        /\ SubSeq(l, a + b + 8, a + b + 10) = "'},"

\* l is {U'<escape of from>',U"<escapes of to, in order>"},
IsSpecialLine(l, from, to) ==
    LET a == EscapeWidth(from)
        n == Len(l)
    IN  /\ n >= a + 10
        /\ SubSeq(l, 1, 3) = "{U'"
        /\ DecodeEscapes(SubSeq(l, 4, a + 3)) = <<from>>
        /\ SubSeq(l, a + 4, a + 7) = "',U\""
        /\ DecodeEscapes(SubSeq(l, a + 8, n - 3)) = to
        /\ SubSeq(l, n - 2, n) = "\"},"

\* the run ended at line 57: the last line of stderr is the column-count message
FormatErrorRaised ==
    /\ pc = "exited"
    /\ stderr # <<>>
    /\ StartsWith(stderr[Len(stderr)], "Expected at least ")

\* C1: a run that ends with a FormatError exits with code 1 and has written no
\* mapping line at all, not even for qualifying records before the offending line.
C1_FormatErrorNoOutput ==
    FormatErrorRaised => exitCode = 1 /\ stdout = <<>>

\* the first record of the file with 6 or more fields, if there is one
ConditionalAt(i) == RecordAt(i) /\ Len(FieldsAt(i)) >= 6
HasConditional == \E i \in 1..Len(file) : ConditionalAt(i)
FirstConditional ==
    CHOOSE i \in 1..Len(file) : ConditionalAt(i) /\ \A j \in 1..(i - 1) : ~ConditionalAt(j)

\* whether record i of a special-casing file would emit in the running mode,
\* taken alone: at least 5 and fewer than 6 fields, a target of 2 or more
SpecialColumn == IF transformation = "special_upper" THEN 4 ELSE 2
SpecialEmitsAt(i) ==
    /\ RecordAt(i)
    /\ Len(FieldsAt(i)) = 5
    /\ ~IntRaises(FieldsAt(i)[1])
    /\ \A t \in {Tokens(FieldsAt(i)[SpecialColumn])[k] :
                   k \in 1..Len(Tokens(FieldsAt(i)[SpecialColumn]))} : ~IntRaises(t)
    /\ Len(Tokens(FieldsAt(i)[SpecialColumn])) >= 2

\* C2: in the special modes the loop never reads past the first record with 6 or
\* more fields; when that record has been read the run has ended with exit code 0,
\* nothing on stderr, and exactly one output line per emitting record before it,
\* so that record and every later line add no output and raise no error.
C2_StopsAtFirstConditional ==
    (opened /\ transformation \in SpecialModes /\ HasConditional) =>
        /\ lineNo <= FirstConditional
        /\ lineNo = FirstConditional =>
              /\ pc = "done"
              /\ exitCode = 0
              /\ stderr = <<>>
              /\ Len(stdout) = Cardinality({i \in 1..(FirstConditional - 1) : SpecialEmitsAt(i)})

\* C2's case: a run stopped at a conditional record that follows an emitted
\* mapping and is followed by a well-formed record with a target of length >= 2
C2_Witness ==
    /\ pc = "done"
    /\ transformation \in SpecialModes
    /\ HasConditional
    /\ lineNo = FirstConditional
    /\ stdout # <<>>
    /\ \E i \in (FirstConditional + 1)..Len(file) : SpecialEmitsAt(i)

\* the loop body runs to its end on a record of a simple mode
SimpleRecordStep ==
    /\ pc = "loop"
    /\ transformation \in SimpleModes
    /\ lineNo' = lineNo + 1
    /\ RecordAt(lineNo + 1)
    /\ Len(FieldsAt(lineNo + 1)) >= 15
    /\ pc' = "loop"

\* C3: in simple_upper a record emits a line if and only if field 2 is "Ll" and
\* field 12 is non-empty, and the line maps the hexadecimal value of field 0 to
\* that of field 12; in simple_lower the same with "Lu" and field 13.  (Fields
\* are numbered from 0 in the claim and from 1 here.)
C3_SimpleEmitsIff ==
    [][SimpleRecordStep =>
        LET f == FieldsAt(lineNo + 1)
            category == IF transformation = "simple_upper" THEN "Ll" ELSE "Lu"
            column == IF transformation = "simple_upper" THEN 13 ELSE 14
        IN  IF f[3] = category /\ f[column] # ""
            THEN /\ Len(stdout') = Len(stdout) + 1
                 /\ SubSeq(stdout', 1, Len(stdout)) = stdout
                 /\ IsSimpleLine(stdout'[Len(stdout')], Int16(f[1]), Int16(f[column]))
            ELSE stdout' = stdout]_vars

\* C3's case: simple_upper has met a record of category Lt that has an
\* uppercase mapping and emitted nothing for it, and has emitted for an Ll record
C3_Witness ==
    /\ transformation = "simple_upper"
    /\ lineNo = 2
    /\ Len(stdout) = 1
    /\ \E i \in 1..2 : Len(FieldsAt(i)) >= 15 /\ FieldsAt(i)[3] = "Lt" /\ FieldsAt(i)[13] # ""
    /\ \E i \in 1..2 : Len(FieldsAt(i)) >= 15 /\ FieldsAt(i)[3] = "Ll" /\ FieldsAt(i)[13] # ""

\* the loop body runs to its end on a record of a special mode
SpecialRecordStep ==
    /\ pc = "loop"
    /\ transformation \in SpecialModes
    /\ lineNo' = lineNo + 1
    /\ RecordAt(lineNo + 1)
    /\ Len(FieldsAt(lineNo + 1)) = 5
    /\ pc' = "loop"

\* C4: in the special modes a record whose designated column (field 3 for
\* special_upper, field 1 for special_lower) holds one code point emits nothing,
\* and one whose column holds 2 or more emits exactly one line, whose string
\* literal lists those code points in their order: every emitted target has
\* length >= 2.
C4_SpecialTargetAtLeastTwo ==
    [][SpecialRecordStep =>
        LET f == FieldsAt(lineNo + 1)
            tokens == Tokens(f[SpecialColumn])
            target == [k \in 1..Len(tokens) |-> Int16(tokens[k])]
        IN  IF Len(tokens) >= 2
            THEN /\ Len(stdout') = Len(stdout) + 1
                 /\ SubSeq(stdout', 1, Len(stdout)) = stdout
                 /\ IsSpecialLine(stdout'[Len(stdout')], Int16(f[1]), target)
            ELSE stdout' = stdout]_vars

\* C4's case: a special mode has passed a record with a one-code-point target
\* without output and emitted for a record with a two-code-point target
C4_Witness ==
    /\ transformation \in SpecialModes
    /\ lineNo = 2
    /\ Len(stdout) = 1
    /\ \E i \in 1..2 : Len(FieldsAt(i)) = 5 /\ Len(Tokens(FieldsAt(i)[SpecialColumn])) = 1
    /\ \E i \in 1..2 : SpecialEmitsAt(i)

BadArguments == Len(argv) # 3 \/ argv[3] \notin RecognizedModes

\* C8: with a number of arguments other than 2, or a mode that is none of the four
\* names, the run exits with code 1 and never opens the input file or writes an
\* output line; the file is opened only after both checks have passed.
C8_UsageErrorBeforeInput ==
    /\ opened => Len(argv) = 3 /\ argv[3] \in RecognizedModes
    /\ BadArguments =>
          /\ ~opened
          /\ stdout = <<>>
          /\ lineNo = 0
          /\ pc \in {"main", "check", "exited"}
          /\ pc = "exited" => exitCode = 1

\* C8's case: a run with an unrecognized mode and a non-empty input has exited
C8_Witness ==
    /\ pc = "exited"
    /\ Len(argv) = 3
    /\ argv[3] \notin RecognizedModes
    /\ file # <<>>
    /\ exitCode = 1

\* whether line i, taken alone, is a record that emits in the running mode
EmitsAt(i) ==
    IF transformation \in SpecialModes THEN SpecialEmitsAt(i)
    ELSE LET f == FieldsAt(i)
             category == IF transformation = "simple_upper" THEN "Ll" ELSE "Lu"
             column == IF transformation = "simple_upper" THEN 13 ELSE 14
         IN  /\ RecordAt(i)
             /\ Len(f) >= 15
             /\ f[3] = category
             /\ f[column] # ""
             /\ ~IntRaises(f[1])
             /\ ~IntRaises(f[column])

\* the line record i emits
EmittedLineAt(i) ==
    LET f == FieldsAt(i)
    IN  IF transformation \in SpecialModes
        THEN LET tokens == Tokens(f[SpecialColumn])
             IN  print_special(Int16(f[1]), [k \in 1..Len(tokens) |-> Int16(tokens[k])])
        ELSE print_simple(Int16(f[1]),
                          Int16(f[IF transformation = "simple_upper" THEN 13 ELSE 14]))

\* the lines of the emitting records among lines 1..n, in input order
RECURSIVE EmittedUpTo(_)
EmittedUpTo(n) ==
    IF n = 0 THEN <<>>
    ELSE EmittedUpTo(n - 1) \o (IF EmitsAt(n) THEN <<EmittedLineAt(n)>> ELSE <<>>)

\* C9: in every mode the output is the lines of the emitting records read so far,
\* one each, in input order; blank lines, comments and records that do not
\* qualify add nothing.
C9_OutputInInputOrder ==
    opened => stdout = EmittedUpTo(lineNo)

\* C9's case: two different records have emitted, with a line between them that
\* emitted nothing
C9_Witness ==
    /\ pc = "done"
    /\ lineNo = 3
    /\ Len(stdout) = 2
    /\ stdout[1] # stdout[2]
    /\ ~EmitsAt(2)

(***************************************************************************)
(* generate-html-entities-cpp.py.                                          *)
(***************************************************************************)
\* the printable ASCII characters in code order: 32 (space) to 95 (_), and
\* 97 (a) to 126 (~)
AsciiTo95 == " !\"#$%&'()*+,-./0123456789:;<=>?@ABCDEFGHIJKLMNOPQRSTUVWXYZ[\\]^_"
AsciiFrom97 == "abcdefghijklmnopqrstuvwxyz{|}~"

\* ord(c)
Ord ==
    [c \in {CharAt(AsciiTo95, i) : i \in 1..Len(AsciiTo95)}
           \cup {CharAt(AsciiFrom97, i) : i \in 1..Len(AsciiFrom97)} |->
        IF \E i \in 1..Len(AsciiTo95) : CharAt(AsciiTo95, i) = c
        THEN 31 + (CHOOSE i \in 1..Len(AsciiTo95) : CharAt(AsciiTo95, i) = c)
        ELSE 96 + (CHOOSE i \in 1..Len(AsciiFrom97) : CharAt(AsciiFrom97, i) = c)]

\* a < b on str: at the first index where they differ the character of a has the
\* smaller code, or a is a proper prefix of b
RECURSIVE StrLess(_, _)
StrLess(a, b) ==
    IF b = "" THEN FALSE
    ELSE IF a = "" THEN TRUE
    ELSE IF CharAt(a, 1) # CharAt(b, 1) THEN Ord[CharAt(a, 1)] < Ord[CharAt(b, 1)]
    ELSE StrLess(SubSeq(a, 2, Len(a)), SubSeq(b, 2, Len(b)))

\* x put into an ascending list after every element that is not greater
RECURSIVE Insert(_, _)
Insert(x, sorted) ==
    IF sorted = <<>> THEN <<x>>
    ELSE IF StrLess(x, Head(sorted)) THEN <<x>> \o sorted
    ELSE <<Head(sorted)>> \o Insert(x, Tail(sorted))

RECURSIVE SortedFrom(_, _)
SortedFrom(lines, done) ==
    IF lines = <<>> THEN done ELSE SortedFrom(Tail(lines), Insert(Head(lines), done))

\* list.sort() left out: the list stays in insertion order
sort_skipped(lines) == lines

\* line 23: output.sort(), a stable ascending sort of a list of str
sort(lines) == SortedFrom(lines, <<>>)

\* lines 7-14: format_code_points of generate-html-entities-cpp.py
html_format_code_points(code_points) ==
    LET formatted_code_points ==
            [i \in 1..Len(code_points) |->
                IF code_points[i] > 65535
                THEN "U'\\U" \o ZeroPad(FormatHex(code_points[i]), 8) \o "'"
                ELSE "U'\\u" \o ZeroPad(FormatHex(code_points[i]), 4) \o "'"]
    IN  Join(formatted_code_points, ",")

\* name[1:] in the place of name[1:-1]
name_cropped_keeping_end(name) == Slice(name, 1, Len(name))

\* line 19: name[1:-1]
name_cropped(name) == Slice(name, 1, -1)

\* the length put before the name
entity_line_length_first(cropped, code_points_formatted) ==
    "{" \o FormatDecimal(Len(cropped)) \o ",u8\"" \o cropped \o "\",{"
    \o code_points_formatted \o "}},"

\* line 21: the f-string appended to output
entity_line(cropped, code_points_formatted) ==
    "{u8\"" \o cropped \o "\"," \o FormatDecimal(Len(cropped)) \o ",{"
    \o code_points_formatted \o "}},"

\* Keys of the input document: with both delimiters, without the trailing one,
\* of length 0 and 1, and with a character below and one above the double quote.
EntityKeys == {"", "&", "&am;", "&amp;", "&amp", "&am!;", "&am#;", "&b;"}

EntityCodePoints == {<<38>>, <<120147, 8402>>}

EntityItems == [name : EntityKeys, codepoints : EntityCodePoints]

\* the items of a JSON object in document order: no key twice
Documents ==
    UNION {{d \in [1..n -> EntityItems] :
               \A i, j \in 1..n : i # j => d[i].name # d[j].name} : n \in 0..MaxEntries}

\* the orderings of the items of document d
Reorderings(d) ==
    {e \in [1..Len(d) -> {d[i] : i \in 1..Len(d)}] :
        {e[i] : i \in 1..Len(d)} = {d[i] : i \in 1..Len(d)}}

InitEntities ==
    /\ data \in UNION {{<<d, e>> : e \in Reorderings(d)} : d \in Documents}
    /\ run = 1
    /\ position = 0
    /\ output = <<>>
    /\ written = <<<<>>, <<>>>>
    /\ CaseIdle
    /\ EscapeIdle

\* lines 18-21: one iteration of the for loop
AppendEntry ==
    /\ run \in {1, 2}
    /\ position < Len(data[run])
    /\ LET name == data[run][position + 1].name
           entry == data[run][position + 1]
           cropped == name_cropped(name)
           code_points_formatted == html_format_code_points(entry.codepoints)
       IN  output' = Append(output, entity_line(cropped, code_points_formatted))
    /\ position' = position + 1
    /\ UNCHANGED <<data, run, written>>
    /\ UNCHANGED <<caseVars, escapeVars>>

\* lines 23-28: sort and print; the run ends (and the next one starts)
SortAndPrint ==
    /\ run \in {1, 2}
    /\ position = Len(data[run])
    /\ written' = [written EXCEPT ![run] =
           << "// NOLINTBEGIN",
              "// clang-format off",
              Join(sort(output), "\n"),
              "// clang-format on",
              "// NOLINTEND" >>]
    /\ run' = run + 1
    /\ position' = 0
    /\ output' = <<>>
    /\ UNCHANGED data
    /\ UNCHANGED <<caseVars, escapeVars>>

NextEntities ==
    \/ AppendEntry
    \/ SortAndPrint

SpecEntities == InitEntities /\ [][NextEntities]_vars

(***************************************************************************)
(* The code-point renderers of both scripts, applied to one code point.    *)
(***************************************************************************)
Boundaries == {0, 65, 256, 4096, 65535, 128512, 1048576, 1114111}

CodePoints ==
    {c \in {b + d : b \in Boundaries, d \in (0 - MaxDelta)..MaxDelta} :
        c >= 0 /\ c <= 1114111}

InitEscape ==
    /\ sample \in CodePoints
    /\ literals = [char_literal |-> "", special |-> "", entity |-> ""]
    /\ CaseIdle
    /\ EntityIdle

\* generate-case-transform-cpp.py renders the code point as a character literal
RenderCharLiteral ==
    /\ literals.char_literal = ""
    /\ literals' = [literals EXCEPT !.char_literal = to_char_literal(sample)]
    /\ UNCHANGED <<sample, caseVars, entityVars>>

\* generate-case-transform-cpp.py renders it as key and twice in a string literal
RenderSpecial ==
    /\ literals.special = ""
    /\ literals' = [literals EXCEPT !.special = print_special(sample, <<sample, sample>>)]
    /\ UNCHANGED <<sample, caseVars, entityVars>>

\* generate-html-entities-cpp.py renders it
RenderEntity ==
    /\ literals.entity = ""
    /\ literals' = [literals EXCEPT !.entity = html_format_code_points(<<sample>>)]
    /\ UNCHANGED <<sample, caseVars, entityVars>>

NextEscape ==
    \/ RenderCharLiteral
    \/ RenderSpecial
    \/ RenderEntity

SpecEscape == InitEscape /\ [][NextEscape]_vars

(***************************************************************************)
(* Properties of generate-html-entities-cpp.py.                            *)
(***************************************************************************)
\* The bare name and the length field read back from an emitted line
\* {u8"<name>",<length>,{...}},  (no modelled name holds a double quote or a comma)
NameOfLine(l) == Split(l, "\"")[2]
LengthOfLine(l) == Split(Split(l, "\"")[3], ",")[2]

\* the number a text of decimal digits denotes; -1 for any other text
RECURSIVE DecimalValue(_)
DecimalValue(t) ==
    IF t = "" THEN -1
    ELSE LET last == CharAt(t, Len(t))
             digit == IF \E d \in 1..10 : CharAt(DecimalDigits, d) = last
                      THEN (CHOOSE d \in 1..10 : CharAt(DecimalDigits, d) = last) - 1
                      ELSE -1
             rest == IF Len(t) = 1 THEN 0 ELSE DecimalValue(SubSeq(t, 1, Len(t) - 1))
         IN  IF digit < 0 \/ rest < 0 THEN -1 ELSE 10 * rest + digit

\* the key of the i-th item the run in progress has consumed
KeyOf(i) == data[run][i].name

\* the line of item i removes exactly one leading and one trailing character of
\* the key, and its length field is the character count of what is left
TrimsOneEachSide(i) ==
    LET key == KeyOf(i)
        bare == NameOfLine(output[i])
    IN  /\ Len(bare) = Len(key) - 2
        /\ \A k \in 1..Len(bare) : CharAt(bare, k) = CharAt(key, k + 1)
        /\ DecimalValue(LengthOfLine(output[i])) = Len(bare)

\* C5: for every key, of any length (0 and 1 included), the emitted bare name is
\* the key without exactly one leading and one trailing character, so it has the
\* key's character count minus 2, and the length field is its character count.
C5_TrimsOneEachSide ==
    run \in {1, 2} => \A i \in 1..Len(output) : TrimsOneEachSide(i)

\* C5 as amended: what the claim says for every key of 2 or more characters; for
\* a key of 0 or 1 characters the bare name is empty and the length field is 0.
C5_TrimsOneEachSideOfLongKeys ==
    run \in {1, 2} =>
        \A i \in 1..Len(output) :
            IF Len(KeyOf(i)) >= 2
            THEN TrimsOneEachSide(i)
            ELSE /\ NameOfLine(output[i]) = ""
                 /\ DecimalValue(LengthOfLine(output[i])) = 0

\* C5's case: the loop has rendered a key without the trailing delimiter and a
\* key of fewer than 2 characters
C5_Witness ==
    /\ run \in {1, 2}
    /\ Len(output) = 2
    /\ \E i \in 1..2 : KeyOf(i) = "&amp" /\ NameOfLine(output[i]) = "am"
    /\ \E i \in 1..2 : Len(KeyOf(i)) < 2

\* the entity lines run r printed, read back from its third print
EntityLines(r) == IF data[r] = <<>> THEN <<>> ELSE Split(written[r][3], "\n")

\* a precedes b in lexicographic order of character codes: at the first index
\* where they differ a has the smaller code, or a is a proper prefix of b
Precedes(a, b) ==
    \E k \in 1..Len(b) :
        /\ k <= Len(a) + 1
        /\ SubSeq(a, 1, k - 1) = SubSeq(b, 1, k - 1)
        /\ k = Len(a) + 1 \/ Ord[CharAt(a, k)] < Ord[CharAt(b, k)]

\* C6: two runs on two orderings of the same definitions write byte-identical
\* output (header, entity lines, footer), and the entity lines are in
\* non-decreasing lexicographic order of their rendered text.
C6_OutputOrderIndependent ==
    /\ run = 3 => written[1] = written[2]
    /\ \A r \in 1..2 :
          (run > r) =>
              /\ Len(written[r]) = 5
              /\ written[r][1] = "// NOLINTBEGIN" /\ written[r][2] = "// clang-format off"
              /\ written[r][4] = "// clang-format on" /\ written[r][5] = "// NOLINTEND"
              /\ LET lines == EntityLines(r)
                 IN  /\ Len(lines) = Len(data[r])
                     /\ \A i, j \in 1..Len(lines) :
                           i < j => ~Precedes(lines[j], lines[i])

\* C6's case: both runs have ended, on different orderings of two or more
\* definitions, the first of which was not in sorted order
C6_Witness ==
    /\ run = 3
    /\ Len(data[1]) >= 2
    /\ data[1] # data[2]
    /\ written[1][3] # ""
    /\ Precedes(EntityLines(1)[1], EntityLines(1)[2])

BareNames(r) ==
    LET lines == EntityLines(r)
    IN  [i \in 1..Len(lines) |-> NameOfLine(lines[i])]

PairwiseDistinct(names) ==
    \A i, j \in 1..Len(names) : i # j => names[i] # names[j]

StrictlyAscending(names) ==
    \A i, j \in 1..Len(names) : i < j => Precedes(names[i], names[j])

\* C10: for definitions whose bare names are pairwise distinct, whatever their
\* characters and code points, the emitted entity lines are in strictly ascending
\* lexicographic order of bare name, as a binary search by name requires.
C10_SortedByBareName ==
    \A r \in 1..2 :
        run > r =>
            LET names == BareNames(r)
            IN  PairwiseDistinct(names) => StrictlyAscending(names)

\* every character of every name has a code above that of the double quote (34)
AboveDoubleQuote(names) ==
    \A i \in 1..Len(names) : \A k \in 1..Len(names[i]) : Ord[CharAt(names[i], k)] > 34

\* C10 as amended: the same, for bare names all of whose characters have a code
\* above that of the double quote, which closes the name in the rendered line.
C10_SortedByBareNameAboveQuote ==
    \A r \in 1..2 :
        run > r =>
            LET names == BareNames(r)
            IN  (PairwiseDistinct(names) /\ AboveDoubleQuote(names))
                    => StrictlyAscending(names)

\* C10's case: a run has written a name and a proper prefix of it, given in the
\* opposite order and with different code points
C10_Witness ==
    /\ run > 1
    /\ Len(data[1]) = 2
    /\ data[1][1].name = "&amp;" /\ data[1][2].name = "&am;"
    /\ data[1][1].codepoints # data[1][2].codepoints
    /\ BareNames(1) = <<"am", "amp">>

(***************************************************************************)
(* Properties of the code-point renderers.                                 *)
(***************************************************************************)
IsUpperHex(t) ==
    \A k \in 1..Len(t) : \E d \in 1..16 : CharAt(UpperHexDigits, d) = CharAt(t, k)

\* e is the escape of c: \u and exactly 4 uppercase hexadecimal digits when
\* c <= 0xFFFF, \U and exactly 8 when c > 0xFFFF, the digits denoting c
IsEscapeOf(e, c) ==
    LET digits == SubSeq(e, 3, Len(e))
    IN  /\ IF c <= 65535
           THEN SubSeq(e, 1, 2) = "\\u" /\ Len(digits) = 4
           ELSE SubSeq(e, 1, 2) = "\\U" /\ Len(digits) = 8
        /\ IsUpperHex(digits)
        /\ HexDigitsValue(digits) = c

\* the escape inside a character literal U'<escape>'
EscapeOfLiteral(l) == SubSeq(l, 3, Len(l) - 1)

\* C7: every call site renders a code point with the same escape: \u and 4
\* uppercase hexadecimal digits up to 0xFFFF, \U and 8 above; to_char_literal,
\* the key and the string literal of print_special, and the entity generator's
\* format_code_points agree.
C7_EscapeUniform ==
    /\ literals.char_literal # "" =>
          /\ SubSeq(literals.char_literal, 1, 2) = "U'"
          /\ CharAt(literals.char_literal, Len(literals.char_literal)) = "'"
          /\ IsEscapeOf(EscapeOfLiteral(literals.char_literal), sample)
    /\ literals.entity # "" =>
          /\ SubSeq(literals.entity, 1, 2) = "U'"
          /\ CharAt(literals.entity, Len(literals.entity)) = "'"
          /\ IsEscapeOf(EscapeOfLiteral(literals.entity), sample)
    /\ (literals.char_literal # "" /\ literals.entity # "") =>
          literals.char_literal = literals.entity
    /\ (literals.special # "" /\ literals.entity # "") =>
          LET e == EscapeOfLiteral(literals.entity)
          IN  literals.special = "{U'" \o e \o "',U\"" \o e \o e \o "\"},"
    /\ (sample = 65 /\ literals.char_literal # "") => literals.char_literal = "U'\\u0041'"
    /\ (sample = 65535 /\ literals.entity # "") => literals.entity = "U'\\uFFFF'"
    /\ (sample = 65536 /\ literals.char_literal # "") => literals.char_literal = "U'\\U00010000'"
    /\ (sample = 128512 /\ literals.entity # "") => literals.entity = "U'\\U0001F600'"

\* C7's case: the first code point above 0xFFFF has been rendered at all three
\* call sites
C7_Witness ==
    /\ sample = 65536
    /\ literals.char_literal # ""
    /\ literals.special # ""
    /\ literals.entity # ""

====
